---------------------------- MODULE Spec2Model ----------------------------
(***************************************************************************)
(* A model of the SSH network-device session driver                        *)
(* (src/ssh_network_device.py, src/ssh_cisco_device.py).                    *)
(*                                                                         *)
(* The driver is a sequential program that blocks on the channel: it is    *)
(* modelled as a stack machine.  `stack` holds one frame per active Python  *)
(* call, each function of the source is one action that runs the function  *)
(* from the frame's program point to its next call, return or raise.  The   *)
(* device and the passing of time are the environment: the device puts     *)
(* its answers on the wire, the wire delivers them in chunks, and a read   *)
(* that finds no data may time out.                                        *)
(*                                                                         *)
(* Text is a sequence of one-character strings.                            *)
(***************************************************************************)
EXTENDS Naturals, Sequences, FiniteSets, TLC

----------------------------------------------------------------------------
(* Bounds of the model *)

\* Frames the interpreter allows before it raises RecursionError
\* (sys.getrecursionlimit(), 1000 in CPython, scaled down).
RecursionLimit == 12

\* Public operations (exec_command, exec_multiple_commands, close) the
\* caller issues on one session.
MaxCalls == 2

----------------------------------------------------------------------------
(* Text *)

NL == "\n"
CR == "\r"

\* str.lower() / re.IGNORECASE on the characters the model uses
LowerChar(c) ==
    CASE c = "R" -> "r"
      [] c = "O" -> "o"
      [] OTHER   -> c

RECURSIVE Lower(_)
Lower(s) == IF s = <<>> THEN <<>> ELSE <<LowerChar(Head(s))>> \o Lower(Tail(s))

\* str.split('\n'): the pieces between newlines, always at least one piece
RECURSIVE SplitFrom(_, _)
SplitFrom(s, cur) ==
    IF s = <<>> THEN <<cur>>
    ELSE IF Head(s) = NL THEN <<cur>> \o SplitFrom(Tail(s), <<>>)
    ELSE SplitFrom(Tail(s), Append(cur, Head(s)))

Split(s) == SplitFrom(s, <<>>)

Last(s) == s[Len(s)]

\* str.lstrip(c) and str.rstrip(c) for a one-character c
RECURSIVE LStrip(_, _)
LStrip(s, c) == IF s # <<>> /\ Head(s) = c THEN LStrip(Tail(s), c) ELSE s

RECURSIVE RStrip(_, _)
RStrip(s, c) ==
    IF s # <<>> /\ Last(s) = c THEN RStrip(SubSeq(s, 1, Len(s) - 1), c) ELSE s

\* data_split[-1].lstrip('\r').lstrip('\n').rstrip('\r').rstrip('\n')
TargetString(data_split) ==
    RStrip(RStrip(LStrip(LStrip(Last(data_split), CR), NL), CR), NL)

----------------------------------------------------------------------------
(* Regular expressions: the part of Python's re the prompts use.           *)
(* A pattern is text; "." is any character but a newline, "x*" is any      *)
(* number of x, "(" and ")" group without consuming text, every other      *)
(* character stands for itself.  Matching ignores case (re.IGNORECASE).    *)

CharMatches(p, c) ==
    IF p = "." THEN c # NL ELSE LowerChar(p) = LowerChar(c)

RECURSIVE MatchHere(_, _)
RECURSIVE MatchStar(_, _, _)

\* the pattern matches a prefix of the text
MatchHere(pat, txt) ==
    IF pat = <<>> THEN TRUE
    ELSE IF Head(pat) \in {"(", ")"} THEN MatchHere(Tail(pat), txt)
    ELSE IF Len(pat) >= 2 /\ pat[2] = "*"
         THEN MatchStar(Head(pat), SubSeq(pat, 3, Len(pat)), txt)
    ELSE /\ txt # <<>>
         /\ CharMatches(Head(pat), Head(txt))
         /\ MatchHere(Tail(pat), Tail(txt))

MatchStar(p, rest, txt) ==
    \/ MatchHere(rest, txt)
    \/ /\ txt # <<>>
       /\ CharMatches(p, Head(txt))
       /\ MatchStar(p, rest, Tail(txt))

\* re.match(pattern, string, re.IGNORECASE) is not None
ReMatch(pattern, string) == MatchHere(pattern, string)

\* re.search(pattern, string, re.IGNORECASE) is not None
ReSearch(pattern, string) ==
    \E i \in 1..(Len(string) + 1) :
        MatchHere(pattern, SubSeq(string, i, Len(string)))

----------------------------------------------------------------------------
(* ipaddress.ip_address on dotted-decimal text: four groups of one to      *)
(* three digits, no leading zero, each at most 255.                        *)

Digits == {"0", "1", "2", "3", "4", "5", "6", "7", "8", "9"}

DigitValue(c) ==
    CASE c = "0" -> 0 [] c = "1" -> 1 [] c = "2" -> 2 [] c = "3" -> 3
      [] c = "4" -> 4 [] c = "5" -> 5 [] c = "6" -> 6 [] c = "7" -> 7
      [] c = "8" -> 8 [] c = "9" -> 9

RECURSIVE DecimalValue(_)
DecimalValue(s) ==
    IF s = <<>> THEN 0
    ELSE 10 * DecimalValue(SubSeq(s, 1, Len(s) - 1)) + DigitValue(Last(s))

RECURSIVE SplitDotsFrom(_, _)
SplitDotsFrom(s, cur) ==
    IF s = <<>> THEN <<cur>>
    ELSE IF Head(s) = "." THEN <<cur>> \o SplitDotsFrom(Tail(s), <<>>)
    ELSE SplitDotsFrom(Tail(s), Append(cur, Head(s)))

IsOctet(s) ==
    /\ Len(s) \in 1..3
    /\ \A i \in 1..Len(s) : s[i] \in Digits
    /\ (Len(s) > 1 => s[1] # "0")
    /\ DecimalValue(s) <= 255

\* is_host_ip_address(host)
is_host_ip_address(host) ==
    LET parts == SplitDotsFrom(host, <<>>)
    IN  /\ Len(parts) = 4
        /\ \A i \in 1..4 : IsOctet(parts[i])


----------------------------------------------------------------------------
(* Inputs *)

\* Python's None where a text is expected: a value that is no text
None == <<"None">>

\* 'terminal length 0', 'enable'
TerminalLength0 == <<"t", "e", "r", "m", "i", "n", "a", "l", " ",
                     "l", "e", "n", "g", "t", "h", " ", "0">>
Enable == <<"e", "n", "a", "b", "l", "e">>

HostChoices == { <<"r">>, <<"1", "9", "2", ".", "0", ".", "2", ".", "1">> }
PatternChoices == { <<>>, <<"r">> }
PasswordChoices == { None, <<"p", "w">> }
InitialCommandChoices == { <<>> }
CommandChoices == { <<"s", "h">>, <<NL>> }
CommandLists ==
    { <<>>, << <<NL>>, <<"s", "h">> >> } \cup { <<c>> : c \in CommandChoices }
OverrideChoices == { <<>>, <<"r", "#">> }
\* The devices: the name each prints in its prompt (in capitals, where the
\* host is given in small letters) and the mode it is in at login.  The last
\* one is named with the letter twice over.
Devices == { << <<"R">>, ">" >>, << <<"R">>, "#" >>, << <<"R", "R">>, ">" >> }

\* What the device prints for one input (or at login): its prompt alone, a
\* line break and the prompt, or an output line that itself looks like the
\* prompt followed by the prompt.
Responses(n, p) ==
    { n \o <<p>>,
      <<NL, CR>> \o n \o <<p>>,
      n \o <<p, NL>> \o n \o <<p>> }

----------------------------------------------------------------------------
(* State *)

VARIABLES
    phase,                     \* "new", "constructing", "ready", "failed"
    host, privilege_password,  \* self._host, self._privilege_password
    default_boundary_pattern,  \* self._default_boundary_pattern
    initial_command,           \* self._initial_command
    user_mode, privilege_mode, config_mode,
    connected,                 \* self._client.connect(...) was called
    channel,                   \* "none", "open", "closed"
    inbuf,                     \* text the channel holds ready for recv
    wire,                      \* text the device has printed, in flight
    unanswered,                \* inputs the device has not answered yet
    devName, devPrompt,        \* the prompt the device prints
    stack,                     \* the active calls, innermost last
    ret,                       \* what the last call returned
    outcome,                   \* how the last public operation ended
    call,                      \* the public operation in progress or last
    calls,                     \* public operations issued so far
    log,                       \* channel events of the current operation
    awaited,                   \* the pattern the current read waits for
    chunks                     \* what each recv of the current read returned

confVars == <<host, privilege_password, default_boundary_pattern, initial_command>>
modeVars == <<user_mode, privilege_mode, config_mode>>
devVars == <<wire, unanswered, devName, devPrompt>>
callVars == <<call, calls>>
readVars == <<awaited, chunks>>

vars == <<phase, confVars, modeVars, connected, channel, inbuf, devVars,
          stack, ret, outcome, callVars, log, readVars>>

\* self._user_mode_prompt, _privilege_mode_prompt, _config_mode_prompt
user_mode_prompt == <<">">>
privilege_mode_prompt == <<"#">>
config_mode_prompt == <<"(", "c", "o", "n", "f", "i", "g", ".", "*", ")", "#">>

\* The most one recv returns: self._channel.recv(1000)
RecvSize == 1000

Modes == <<user_mode, privilege_mode, config_mode>>

NoneValue == [raw |-> <<>>, rows |-> <<>>]
NoOutcome == [kind |-> "none", err |-> "", value |-> <<>>]

Frame(fn, commands, boundary_pattern, config) ==
    [fn |-> fn, pc |-> "start", commands |-> commands,
     boundary_pattern |-> boundary_pattern, config |-> config,
     result |-> <<>>, data |-> <<>>, data_split |-> <<>>]

Event(ev, text, rows) ==
    [ev |-> ev, text |-> text, rows |-> rows, modes |-> Modes]

Top == stack[Len(stack)]
Running(fn) == stack # <<>> /\ Top.fn = fn

Init ==
    /\ phase = "new"
    /\ host = <<>> /\ privilege_password = None
    /\ default_boundary_pattern = <<>> /\ initial_command = <<>>
    /\ user_mode = FALSE /\ privilege_mode = FALSE /\ config_mode = FALSE
    /\ connected = FALSE /\ channel = "none"
    /\ inbuf = <<>> /\ wire = <<>> /\ unanswered = 0
    /\ devName = <<"R">> /\ devPrompt = ">"
    /\ stack = <<>> /\ ret = NoneValue /\ outcome = NoOutcome
    /\ call = [op |-> "none", commands |-> <<>>, boundary_pattern |-> <<>>,
               config |-> FALSE, modes |-> <<FALSE, FALSE, FALSE>>,
               channel |-> "none"]
    /\ calls = 0
    /\ log = <<>>
    /\ awaited = <<>> /\ chunks = <<>>

----------------------------------------------------------------------------
(* Control: call, return, raise.  No function of the source catches an     *)
(* exception, so a raise unwinds the whole stack to the caller of the      *)
(* public operation; one raised while the constructor runs leaves no       *)
(* session object.                                                         *)

\* Mutation of Raise: the caller of the running function catches the error
\* and goes on as if the function had returned.
RaiseCaughtByCaller(err) ==
    /\ stack' = SubSeq(stack, 1, Len(stack) - 1)
    /\ ret' = NoneValue
    /\ UNCHANGED <<outcome, phase>>

Raise(err) ==
    /\ stack' = <<>>
    /\ ret' = NoneValue
    /\ outcome' = [kind |-> "raise", err |-> err, value |-> <<>>]
    /\ phase' = IF phase \in {"new", "constructing"} THEN "failed" ELSE phase

Return(value) ==
    /\ stack' = SubSeq(stack, 1, Len(stack) - 1)
    /\ ret' = value
    /\ IF Len(stack) = 1
       THEN /\ outcome' = [kind |-> "return", err |-> "", value |-> value.rows]
            /\ phase' = IF phase = "constructing" THEN "ready" ELSE phase
       ELSE UNCHANGED <<outcome, phase>>

\* The running function, its frame now `frame`, calls `callee`.
CallFrom(frame, callee) ==
    IF Len(stack) >= RecursionLimit
    THEN Raise("RecursionError")
    ELSE /\ stack' = Append([stack EXCEPT ![Len(stack)] = frame], callee)
         /\ UNCHANGED <<ret, outcome, phase>>

At(pc) == [Top EXCEPT !.pc = pc]


----------------------------------------------------------------------------
(* Construction: SSHNetworkDevice.__init__ with the Cisco overrides *)

\* _set_initial_command
set_initial_command(initial_command_arg) ==
    IF initial_command_arg # <<>> THEN initial_command_arg ELSE <<NL>>

\* SSHCiscoDevice._set_default_boundary_pattern: the value it stores
set_default_boundary_pattern(pattern, h) ==
    IF pattern # <<>> THEN pattern ELSE h

\* Mutation of default_boundary_pattern_rejected: as in the base class, no
\* host is rejected.
default_boundary_pattern_never_rejected(pattern, h) == FALSE

\* SSHCiscoDevice._set_default_boundary_pattern: whether it raises
default_boundary_pattern_rejected(pattern, h) ==
    pattern = <<>> /\ is_host_ip_address(h)

Construct ==
    /\ phase = "new"
    /\ \E h \in HostChoices, pattern \in PatternChoices,
          pw \in PasswordChoices, ic \in InitialCommandChoices,
          d \in Devices :
        /\ host' = h
        /\ privilege_password' = pw
        /\ initial_command' = set_initial_command(ic)
        /\ default_boundary_pattern' = set_default_boundary_pattern(pattern, h)
        /\ devName' = d[1] /\ devPrompt' = d[2]
        /\ call' = [op |-> "__init__", commands |-> <<>>,
                    boundary_pattern |-> pattern, config |-> FALSE,
                    modes |-> Modes, channel |-> channel]
        /\ IF default_boundary_pattern_rejected(pattern, h)
           THEN /\ Raise("AmbiguousBoundaryPattern")
                /\ UNCHANGED <<connected, channel, unanswered>>
           ELSE \* connect, invoke_shell: the device prints its login text
                /\ connected' = TRUE
                /\ channel' = "open"
                /\ unanswered' = 1
                /\ phase' = "constructing"
                /\ stack' = <<Frame("_initial_actions", <<>>, <<>>, FALSE)>>
                /\ UNCHANGED <<ret, outcome>>
    /\ user_mode' = FALSE /\ privilege_mode' = FALSE /\ config_mode' = FALSE
    /\ UNCHANGED <<inbuf, wire, calls, log, readVars>>

\* _initial_actions
InitialActions ==
    /\ Running("_initial_actions")
    /\ CASE Top.pc = "start" ->
              CallFrom(At("cleared"),
                       Frame("_boundary_for_interactive", <<>>,
                             default_boundary_pattern, FALSE))
         [] Top.pc = "cleared" ->
              CallFrom(At("checked"),
                       Frame("_check_initial_mode", <<>>, <<>>, FALSE))
         [] Top.pc = "checked" -> Return(NoneValue)
    /\ UNCHANGED <<confVars, modeVars, connected, channel, inbuf, devVars,
                   callVars, log, readVars>>

\* Mutation of initial_mode: the user branch also sets the privileged flag.
initial_mode_sets_two_flags(pattern, last_row) ==
    LET target_string == Lower(last_row)
    IN  IF ReSearch(pattern \o user_mode_prompt, target_string)
        THEN <<TRUE, TRUE, FALSE>>
        ELSE IF ReSearch(pattern \o privilege_mode_prompt, target_string)
        THEN <<FALSE, TRUE, FALSE>>
        ELSE <<FALSE, FALSE, FALSE>>

\* SSHCiscoDevice._check_initial_mode: the mode the trailing line selects
initial_mode(pattern, last_row) ==
    LET target_string == Lower(last_row)
    IN  IF ReSearch(pattern \o user_mode_prompt, target_string)
        THEN <<TRUE, FALSE, FALSE>>
        ELSE IF ReSearch(pattern \o privilege_mode_prompt, target_string)
        THEN <<FALSE, TRUE, FALSE>>
        ELSE <<FALSE, FALSE, FALSE>>

\* SSHCiscoDevice._check_initial_mode
CheckInitialMode ==
    /\ Running("_check_initial_mode")
    /\ CASE Top.pc = "start" ->
              /\ CallFrom(At("sent"),
                          Frame("_send", <<initial_command>>,
                                default_boundary_pattern, FALSE))
              /\ UNCHANGED modeVars
         [] Top.pc = "sent" ->
              LET m == initial_mode(default_boundary_pattern, Last(ret.rows))
              IN  IF m[1]
                  THEN /\ user_mode' = m[1] /\ privilege_mode' = m[2]
                       /\ config_mode' = m[3]
                       /\ Return(NoneValue)
                  ELSE IF m[2]
                  THEN /\ user_mode' = m[1] /\ privilege_mode' = m[2]
                       /\ config_mode' = m[3]
                       /\ CallFrom(At("paged"),
                                   Frame("_terminal_length_zero", <<>>, <<>>, FALSE))
                  ELSE /\ Raise("UnexpectedPrompt")
                       /\ UNCHANGED modeVars
         [] Top.pc = "paged" ->
              /\ Return(NoneValue)
              /\ UNCHANGED modeVars
    /\ UNCHANGED <<confVars, connected, channel, inbuf, devVars, callVars, log, readVars>>

\* Mutation of TerminalLengthZero: it returns without sending the command.
TerminalLengthZeroSkipped ==
    /\ Running("_terminal_length_zero")
    /\ Return(NoneValue)
    /\ UNCHANGED <<confVars, modeVars, connected, channel, inbuf, devVars,
                   callVars, log, readVars>>

\* SSHCiscoDevice._terminal_length_zero
TerminalLengthZero ==
    /\ Running("_terminal_length_zero")
    /\ CASE Top.pc = "start" ->
              CallFrom(At("done"),
                       Frame("exec_command", <<TerminalLength0>>, <<>>, FALSE))
         [] Top.pc = "done" -> Return(NoneValue)
    /\ UNCHANGED <<confVars, modeVars, connected, channel, inbuf, devVars,
                   callVars, log, readVars>>


----------------------------------------------------------------------------
(* Mode transitions *)

\* Mutation of close_channel: the channel is left as it is.
close_channel_forgotten(ch) == ch

\* self._channel.close()
close_channel(ch) == "closed"

\* Mutation of may_escalate: escalation goes ahead from any mode.
may_escalate_from_any_mode(flag) == TRUE

\* SSHCiscoDevice._enter_privilege_mode: `if self._user_mode:`
may_escalate(flag) == flag

\* SSHCiscoDevice._enter_privilege_mode
EnterPrivilegeMode ==
    /\ Running("_enter_privilege_mode")
    /\ CASE Top.pc = "start" ->
              IF may_escalate(user_mode)
              THEN IF privilege_password = None
                   THEN /\ channel' = close_channel(channel)
                        /\ log' = log \o <<Event("enter_privilege", <<>>, <<>>),
                                           Event("close", <<>>, <<>>)>>
                        /\ Raise("MissingCredential")
                        /\ UNCHANGED modeVars
                   ELSE /\ CallFrom(At("escalated"),
                                    Frame("exec_multiple_commands",
                                          <<Enable, privilege_password>>,
                                          default_boundary_pattern
                                              \o privilege_mode_prompt,
                                          FALSE))
                        /\ log' = Append(log, Event("enter_privilege", <<>>, <<>>))
                        /\ UNCHANGED <<modeVars, channel>>
              ELSE /\ Raise("UnexpectedModeFlag")
                   /\ log' = Append(log, Event("enter_privilege", <<>>, <<>>))
                   /\ UNCHANGED <<modeVars, channel>>
         [] Top.pc = "escalated" ->
              /\ user_mode' = FALSE
              /\ privilege_mode' = TRUE
              /\ config_mode' = FALSE
              /\ CallFrom(At("paged"),
                          Frame("_terminal_length_zero", <<>>, <<>>, FALSE))
              /\ UNCHANGED <<channel, log>>
         [] Top.pc = "paged" ->
              /\ Return(NoneValue)
              /\ UNCHANGED <<modeVars, channel, log>>
    /\ UNCHANGED <<confVars, connected, inbuf, devVars, callVars, readVars>>

\* SSHNetworkDevice._enter_config_mode: the Cisco class does not override it
EnterConfigMode ==
    /\ Running("_enter_config_mode")
    /\ Raise("NotImplemented")
    /\ UNCHANGED <<confVars, modeVars, connected, channel, inbuf, devVars,
                   callVars, log, readVars>>

----------------------------------------------------------------------------
(* Command execution *)

\* exec_command, exec_multiple_commands: `if not self._privilege_mode:`
must_enter_privilege_mode(flag) == ~flag

\* Mutation of exec_command_accepts: any non-empty list is accepted.
exec_command_accepts_non_empty(commands) == Len(commands) >= 1

\* exec_command: len(command.commands) == 1
exec_command_accepts(commands) == Len(commands) = 1

\* exec_command, from `if self._privilege_mode:` on
ExecCommandSend ==
    IF privilege_mode
    THEN CallFrom(At("sent"),
                  Frame("_send", <<Top.commands[1]>>, Top.boundary_pattern, FALSE))
    ELSE Raise("NotPrivileged")

\* Mutation of ExecCommand: the command is sent whatever the mode.
ExecCommandUnchecked ==
    /\ Running("exec_command")
    /\ CASE Top.pc = "sent" -> Return([raw |-> <<>>, rows |-> ret.rows])
         [] OTHER ->
              IF ~exec_command_accepts(Top.commands)
              THEN Raise("ValueError")
              ELSE CallFrom(At("sent"),
                            Frame("_send", <<Top.commands[1]>>,
                                  Top.boundary_pattern, FALSE))
    /\ UNCHANGED <<confVars, modeVars, connected, channel, inbuf, devVars,
                   callVars, log, readVars>>

\* exec_command
ExecCommand ==
    /\ Running("exec_command")
    /\ CASE Top.pc = "start" ->
              IF ~exec_command_accepts(Top.commands)
              THEN Raise("ValueError")
              ELSE IF must_enter_privilege_mode(privilege_mode)
              THEN CallFrom(At("entered"),
                            Frame("_enter_privilege_mode", <<>>, <<>>, FALSE))
              ELSE ExecCommandSend
         [] Top.pc = "entered" -> ExecCommandSend
         [] Top.pc = "sent" -> Return([raw |-> <<>>, rows |-> ret.rows])
    /\ UNCHANGED <<confVars, modeVars, connected, channel, inbuf, devVars,
                   callVars, log, readVars>>

\* Mutation of append_result: the rows are put in front.
append_result_in_front(result, split_rows) == <<split_rows>> \o result

\* _result.append(split_rows)
append_result(result, split_rows) == Append(result, split_rows)

\* exec_multiple_commands, from `_result = []` on
ExecMultipleSendFirst ==
    IF privilege_mode \/ config_mode
    THEN IF Len(Top.commands) > 0
         THEN CallFrom(At("sent"),
                       Frame("_send", <<Top.commands[1]>>,
                             Top.boundary_pattern, FALSE))
         ELSE Raise("ValueError")
    ELSE Raise("NotPrivilegedOrConfig")

\* exec_multiple_commands
ExecMultipleCommands ==
    /\ Running("exec_multiple_commands")
    /\ CASE Top.pc = "start" ->
              IF Top.config
              THEN IF ~config_mode
                   THEN CallFrom(At("entered"),
                                 Frame("_enter_config_mode", <<>>, <<>>, FALSE))
                   ELSE ExecMultipleSendFirst
              ELSE IF must_enter_privilege_mode(privilege_mode)
                   THEN CallFrom(At("entered"),
                                 Frame("_enter_privilege_mode", <<>>, <<>>, FALSE))
                   ELSE ExecMultipleSendFirst
         [] Top.pc = "entered" -> ExecMultipleSendFirst
         [] Top.pc = "sent" ->
              LET result == append_result(Top.result, ret.rows)
              IN  IF Len(result) < Len(Top.commands)
                  THEN CallFrom([Top EXCEPT !.result = result],
                                Frame("_send", <<Top.commands[Len(result) + 1]>>,
                                      Top.boundary_pattern, FALSE))
                  ELSE Return([raw |-> <<>>, rows |-> result])
    /\ UNCHANGED <<confVars, modeVars, connected, channel, inbuf, devVars,
                   callVars, log, readVars>>

\* Mutation of resolve_boundary_pattern: the pattern handed in is ignored.
resolve_without_override(boundary_pattern) ==
    IF user_mode
    THEN <<TRUE, default_boundary_pattern \o user_mode_prompt>>
    ELSE IF privilege_mode
    THEN <<TRUE, default_boundary_pattern \o privilege_mode_prompt>>
    ELSE IF config_mode
    THEN <<TRUE, default_boundary_pattern \o config_mode_prompt>>
    ELSE <<FALSE>>

\* _send: the boundary pattern it waits for (<<FALSE>> when it raises)
resolve_boundary_pattern(boundary_pattern) ==
    IF boundary_pattern # <<>> THEN <<TRUE, boundary_pattern>>
    ELSE IF user_mode
    THEN <<TRUE, default_boundary_pattern \o user_mode_prompt>>
    ELSE IF privilege_mode
    THEN <<TRUE, default_boundary_pattern \o privilege_mode_prompt>>
    ELSE IF config_mode
    THEN <<TRUE, default_boundary_pattern \o config_mode_prompt>>
    ELSE <<FALSE>>

\* Mutation of sent_text: the newline is appended to every command.
sent_text_always_appends(command) == command \o <<NL>>

\* _send: the text it gives to self._channel.send
sent_text(command) ==
    IF command = <<NL>> THEN command ELSE command \o <<NL>>

\* Mutation of Send: the command is sent and _send returns at once, without
\* the read for its answer.
SendWithoutRead ==
    /\ Running("_send")
    /\ log' = Append(log, Event("send", sent_text(Top.commands[1]), <<>>))
    /\ unanswered' = unanswered + 1
    /\ Return([raw |-> <<>>, rows |-> << <<>> >>])
    /\ UNCHANGED <<confVars, modeVars, connected, channel, inbuf,
                   wire, devName, devPrompt, callVars, readVars>>

\* _send.  Channel.send on a closed channel raises (paramiko: 'Socket is closed').
Send ==
    /\ Running("_send")
    /\ CASE Top.pc = "start" ->
              LET resolved == resolve_boundary_pattern(Top.boundary_pattern)
              IN  IF ~resolved[1]
                  THEN /\ Raise("UnexpectedStatus")
                       /\ UNCHANGED <<log, unanswered>>
                  ELSE IF channel # "open"
                  THEN /\ Raise("SocketClosed")
                       /\ UNCHANGED <<log, unanswered>>
                  ELSE /\ log' = Append(log,
                                   Event("send", sent_text(Top.commands[1]), <<>>))
                       /\ unanswered' = unanswered + 1
                       /\ CallFrom(At("read"),
                                   Frame("_boundary_for_interactive", <<>>,
                                         resolved[2], FALSE))
         [] Top.pc = "read" ->
              /\ Return(ret)
              /\ UNCHANGED <<log, unanswered>>
    /\ UNCHANGED <<confVars, modeVars, connected, channel, inbuf,
                   wire, devName, devPrompt, callVars, readVars>>

----------------------------------------------------------------------------
(* Reading *)

\* Mutation of accumulate: the new chunk replaces what was read before.
accumulate_keeps_last(data, received) == received

\* data += self._flush_buffer(...)
accumulate(data, received) == data \o received

\* _boundary_for_interactive.  When the pattern matches the empty
\* target_string the loop body never runs and `return data, data_split`
\* reads a name that was never bound.
BoundaryForInteractive ==
    /\ Running("_boundary_for_interactive")
    /\ CASE Top.pc = "start" ->
              /\ awaited' = Top.boundary_pattern
              /\ chunks' = <<>>
              /\ UNCHANGED log
              /\ IF ReMatch(Top.boundary_pattern, <<>>)
                 THEN Raise("UnboundLocalError")
                 ELSE CallFrom(At("flushed"),
                               Frame("_flush_buffer", <<>>, <<>>, FALSE))
         [] Top.pc = "flushed" ->
              LET data == accumulate(Top.data, ret.raw)
                  data_split == Split(data)
                  target_string == TargetString(data_split)
              IN  IF ReMatch(Top.boundary_pattern, target_string)
                  THEN /\ Return([raw |-> data, rows |-> data_split])
                       /\ log' = Append(log, Event("read", data, data_split))
                       /\ UNCHANGED readVars
                  ELSE /\ CallFrom([Top EXCEPT !.data = data,
                                               !.data_split = data_split],
                                   Frame("_flush_buffer", <<>>, <<>>, FALSE))
                       /\ UNCHANGED <<log, readVars>>
    /\ UNCHANGED <<confVars, modeVars, connected, channel, inbuf, devVars,
                   callVars>>

Min(a, b) == IF a <= b THEN a ELSE b

\* Mutation of wait_expired: the wait for data is never given up.
wait_never_expires == FALSE

\* _flush_buffer: `after_while - now >= expired_time`.  The clock advances
\* with every poll, so a wait that sees no data passes expired_time.
wait_expired == TRUE

\* _flush_buffer: recv once data is ready; TimeoutError when none came in
\* expired_time seconds
FlushBuffer ==
    /\ Running("_flush_buffer")
    /\ IF inbuf # <<>>
       THEN LET n == Min(Len(inbuf), RecvSize)
                received == SubSeq(inbuf, 1, n)
            IN  /\ inbuf' = SubSeq(inbuf, n + 1, Len(inbuf))
                /\ chunks' = Append(chunks, received)
                /\ UNCHANGED <<log, awaited>>
                /\ Return([raw |-> received, rows |-> <<>>])
       ELSE IF wait_expired
       THEN /\ Raise("TimeoutError")
            /\ log' = Append(log, Event("timeout", <<>>, <<>>))
            /\ UNCHANGED <<inbuf, readVars>>
       ELSE UNCHANGED <<phase, stack, ret, outcome, log, inbuf, readVars>>
    /\ UNCHANGED <<confVars, modeVars, connected, channel, devVars, callVars>>

----------------------------------------------------------------------------
(* The device and the wire *)

\* The program looks at the channel only inside _flush_buffer, so text that
\* arrives at any other moment is seen exactly as if it arrived at the next
\* _flush_buffer: the device's steps are taken there.

\* The device answers one input (or prints its login text).
DeviceRespond ==
    /\ Running("_flush_buffer")
    /\ channel = "open"
    /\ unanswered > 0
    /\ wire = <<>>
    /\ \E r \in Responses(devName, devPrompt) : wire' = r
    /\ unanswered' = unanswered - 1
    /\ UNCHANGED <<phase, confVars, modeVars, connected, channel, inbuf,
                   devName, devPrompt, stack, ret, outcome, callVars, log, readVars>>

\* The next chunk of the device's text reaches the channel.
DeviceDeliver ==
    /\ Running("_flush_buffer")
    /\ channel = "open"
    /\ wire # <<>>
    /\ inbuf = <<>>
    /\ \E k \in 1..Len(wire) :
        /\ inbuf' = inbuf \o SubSeq(wire, 1, k)
        /\ wire' = SubSeq(wire, k + 1, Len(wire))
    /\ UNCHANGED <<phase, confVars, modeVars, connected, channel, unanswered,
                   devName, devPrompt, stack, ret, outcome, callVars, log, readVars>>

----------------------------------------------------------------------------
(* The caller *)

Idle == phase = "ready" /\ stack = <<>> /\ calls < MaxCalls

Begin(op, commands, boundary_pattern, config) ==
    /\ call' = [op |-> op, commands |-> commands,
                boundary_pattern |-> boundary_pattern, config |-> config,
                modes |-> Modes, channel |-> channel]
    /\ calls' = calls + 1
    /\ log' = <<>>
    /\ awaited' = <<>> /\ chunks' = <<>>
    /\ ret' = NoneValue
    /\ outcome' = NoOutcome

CallExecCommand ==
    /\ Idle
    /\ \E commands \in CommandLists, bp \in OverrideChoices :
        /\ Begin("exec_command", commands, bp, FALSE)
        /\ stack' = <<Frame("exec_command", commands, bp, FALSE)>>
    /\ UNCHANGED <<phase, confVars, modeVars, connected, channel, inbuf, devVars>>

CallExecMultipleCommands ==
    /\ Idle
    /\ \E commands \in CommandLists, bp \in OverrideChoices, config \in BOOLEAN :
        /\ Begin("exec_multiple_commands", commands, bp, config)
        /\ stack' = <<Frame("exec_multiple_commands", commands, bp, config)>>
    /\ UNCHANGED <<phase, confVars, modeVars, connected, channel, inbuf, devVars>>

\* _enter_privilege_mode called on the session object itself
CallEnterPrivilegeMode ==
    /\ Idle
    /\ Begin("_enter_privilege_mode", <<>>, <<>>, FALSE)
    /\ stack' = <<Frame("_enter_privilege_mode", <<>>, <<>>, FALSE)>>
    /\ UNCHANGED <<phase, confVars, modeVars, connected, channel, inbuf, devVars>>

\* close
Close ==
    /\ Idle
    /\ Begin("close", <<>>, <<>>, FALSE)
    /\ channel' = close_channel(channel)
    /\ UNCHANGED <<phase, confVars, modeVars, connected, inbuf, devVars, stack>>

----------------------------------------------------------------------------

Next ==
    \/ Construct
    \/ InitialActions
    \/ CheckInitialMode
    \/ TerminalLengthZero
    \/ EnterPrivilegeMode
    \/ EnterConfigMode
    \/ ExecCommand
    \/ ExecMultipleCommands
    \/ Send
    \/ BoundaryForInteractive
    \/ FlushBuffer
    \/ DeviceRespond
    \/ DeviceDeliver
    \/ CallExecCommand
    \/ CallExecMultipleCommands
    \/ CallEnterPrivilegeMode
    \/ Close

Spec == Init /\ [][Next]_vars

\* _send by itself, for every value of its inputs: the command, the pattern
\* handed in and the three flags of the session it is called on (none set,
\* or the one of User, Privileged or Configuration mode), on an open channel
\* to a device at its prompt.
FlagChoices ==
    { <<FALSE, FALSE, FALSE>>, <<TRUE, FALSE, FALSE>>,
      <<FALSE, TRUE, FALSE>>, <<FALSE, FALSE, TRUE>> }

SendInit ==
    /\ phase = "ready"
    /\ host = <<"r">> /\ privilege_password = None
    /\ default_boundary_pattern = <<"r">> /\ initial_command = <<NL>>
    /\ \E flags \in FlagChoices :
          /\ user_mode = flags[1]
          /\ privilege_mode = flags[2]
          /\ config_mode = flags[3]
    /\ connected = TRUE /\ channel = "open"
    /\ inbuf = <<>> /\ wire = <<>> /\ unanswered = 0
    /\ \E d \in Devices : devName = d[1] /\ devPrompt = d[2]
    /\ \E command \in CommandChoices, bp \in OverrideChoices :
          /\ stack = <<Frame("_send", <<command>>, bp, FALSE)>>
          /\ call = [op |-> "_send", commands |-> <<command>>,
                     boundary_pattern |-> bp, config |-> FALSE,
                     modes |-> Modes, channel |-> "open"]
    /\ ret = NoneValue /\ outcome = NoOutcome
    /\ calls = 1
    /\ log = <<>>
    /\ awaited = <<>> /\ chunks = <<>>

SendNext ==
    \/ Send
    \/ BoundaryForInteractive
    \/ FlushBuffer
    \/ DeviceRespond
    \/ DeviceDeliver

SendSpec == SendInit /\ [][SendNext]_vars

\* _boundary_for_interactive by itself, for every boundary pattern: the
\* empty one (the default pattern of the base class), two that match the
\* empty text, and the literal ones; on the open channel of a session at its
\* prompt, the device owing the answer to what was just sent.
ReadPatterns ==
    { <<>>, <<".", "*">>, <<"r", "*">>, <<"r">>, <<"r", "#">>, <<"r", ">">> }

ReadInit ==
    /\ phase = "ready"
    /\ host = <<"r">> /\ privilege_password = None
    /\ default_boundary_pattern = <<"r">> /\ initial_command = <<NL>>
    /\ \E d \in Devices :
          /\ devName = d[1] /\ devPrompt = d[2]
          /\ user_mode = (d[2] = ">")
          /\ privilege_mode = (d[2] = "#")
    /\ config_mode = FALSE
    /\ connected = TRUE /\ channel = "open"
    /\ inbuf = <<>> /\ wire = <<>> /\ unanswered = 1
    /\ \E pattern \in ReadPatterns :
          /\ stack = <<Frame("_boundary_for_interactive", <<>>, pattern, FALSE)>>
          /\ call = [op |-> "_boundary_for_interactive", commands |-> <<>>,
                     boundary_pattern |-> pattern, config |-> FALSE,
                     modes |-> Modes, channel |-> "open"]
    /\ ret = NoneValue /\ outcome = NoOutcome
    /\ calls = 1
    /\ log = <<>>
    /\ awaited = <<>> /\ chunks = <<>>

ReadNext ==
    \/ BoundaryForInteractive
    \/ FlushBuffer
    \/ DeviceRespond
    \/ DeviceDeliver

ReadSpec == ReadInit /\ [][ReadNext]_vars

\* _boundary_for_interactive can take a step exactly when it is the running
\* function: every branch of it calls, returns or raises.
BoundaryEnabled ==
    Running("_boundary_for_interactive")
        <=> ENABLED <<BoundaryForInteractive>>_vars

\* Weak fairness of BoundaryForInteractive, WF_vars(BoundaryForInteractive),
\* written out with its enabling condition as BoundaryEnabled gives it.
ReadGoesOn ==
    \/ []<>(~Running("_boundary_for_interactive"))
    \/ []<><<BoundaryForInteractive>>_vars

\* The interpreter runs a read on: _flush_buffer polls until it receives or
\* gives up, _boundary_for_interactive takes its next step.  The caller and
\* the device are under no obligation.
FairSpec == Spec /\ WF_vars(FlushBuffer) /\ ReadGoesOn


----------------------------------------------------------------------------
(* What the properties speak of *)

IsSend(e) == e.ev = "send"
IsRead(e) == e.ev = "read"
IsEnterPrivilege(e) == e.ev = "enter_privilege"

\* The texts given to the channel by the current operation, in order
Sent ==
    LET sends == SelectSeq(log, IsSend)
    IN  [i \in 1..Len(sends) |-> sends[i].text]

\* The current public operation has returned or raised
Ended == stack = <<>> /\ outcome.kind # "none"

Raised(err) == Ended /\ outcome.kind = "raise" /\ outcome.err = err

UserMode == <<TRUE, FALSE, FALSE>>
PrivilegedMode == <<FALSE, TRUE, FALSE>>

ExactlyOne(modes) ==
    Cardinality({i \in 1..3 : modes[i]}) = 1

\* A command followed by the newline that terminates it
Line(command) == command \o <<NL>>

\* The texts of `wanted` occur in `texts` in this order
InOrder(wanted, texts) ==
    \E f \in [1..Len(wanted) -> 1..Len(texts)] :
        /\ \A i \in 1..Len(wanted) : texts[f[i]] = wanted[i]
        /\ \A i \in 1..(Len(wanted) - 1) : f[i] < f[i + 1]

RECURSIVE Concat(_)
Concat(seqs) == IF seqs = <<>> THEN <<>> ELSE Head(seqs) \o Concat(Tail(seqs))

----------------------------------------------------------------------------
(* C1 *)

\* C1: a Cisco session in User mode with a privilege password, asked to
\* exec_command one command c while the device keeps answering (no read
\* times out), returns after sending `enable`, the password and c in that
\* order, and is then in Privileged mode.
C1_EscalatesThenSendsCommand ==
    ( /\ call.op = "exec_command"
      /\ Len(call.commands) = 1
      /\ call.modes = UserMode
      /\ call.channel = "open"
      /\ privilege_password # None
      /\ Ended
      /\ outcome.err # "TimeoutError" )
    => /\ outcome.kind = "return"
       /\ InOrder(<<Line(Enable), Line(privilege_password),
                    Line(call.commands[1])>>, Sent)
       /\ Modes = PrivilegedMode

----------------------------------------------------------------------------
(* C2 *)

\* C2: within one public operation _enter_privilege_mode is entered at most
\* once.
C2_EscalationAtMostOnce ==
    Len(SelectSeq(log, IsEnterPrivilege)) <= 1


----------------------------------------------------------------------------
(* C3 *)

\* The constructor has not yet classified the answer to its probe.
BeforeModeCheck ==
    \/ phase = "new"
    \/ /\ phase = "constructing"
       /\ \/ stack[1].pc \in {"start", "cleared"}
          \/ /\ Len(stack) >= 2
             /\ stack[2].fn = "_check_initial_mode"
             /\ stack[2].pc \in {"start", "sent"}

PublicCall == call.op \in {"exec_command", "exec_multiple_commands"}

\* C3: until the initial mode check has classified the prompt all three mode
\* flags are false; once the session is constructed, every command is sent
\* with exactly one flag true, and exactly one flag is true whenever
\* exec_command or exec_multiple_commands has returned or raised.
C3_ModeInvariant ==
    /\ BeforeModeCheck => Modes = <<FALSE, FALSE, FALSE>>
    /\ (phase = "ready" /\ PublicCall) =>
          /\ \A i \in 1..Len(log) : IsSend(log[i]) => ExactlyOne(log[i].modes)
          /\ Ended => ExactlyOne(Modes)

\* A constructed session has sent a command and its exec_command returned.
C3_Witness ==
    /\ phase = "ready"
    /\ call.op = "exec_command"
    /\ Ended /\ outcome.kind = "return"
    /\ Len(Sent) = 1

----------------------------------------------------------------------------
(* C4 *)

\* The text that carries a command: the command and a newline, a bare
\* newline as it is.
OnWire(command) == IF command = <<NL>> THEN <<NL>> ELSE Line(command)

AlreadyPrivileged ==
    /\ call.op = "exec_command"
    /\ Len(call.commands) = 1
    /\ call.modes = PrivilegedMode
    /\ call.channel = "open"

\* C4 as claimed: exec_command of one command c on a session already in
\* Privileged mode sends exactly one text, c followed by a newline, and
\* leaves the mode flags as they were.
C4_SendsCommandAndNewline ==
    (AlreadyPrivileged /\ Ended /\ outcome.kind = "return") =>
        /\ Sent = <<Line(call.commands[1])>>
        /\ Modes = call.modes

\* C4, amended: exec_command of one command c on a session already in
\* Privileged mode, its channel open, never enters escalation and sends
\* exactly one text: c followed by a newline, or c itself when c is a bare
\* newline; the mode flags stay as they were.
C4_NoEscalationWhenPrivileged ==
    AlreadyPrivileged =>
        /\ SelectSeq(log, IsEnterPrivilege) = <<>>
        /\ Modes = call.modes
        /\ Sent \in { <<>>, <<OnWire(call.commands[1])>> }
        /\ Ended => Sent = <<OnWire(call.commands[1])>>

\* Such a call has returned.
C4_Witness ==
    /\ AlreadyPrivileged
    /\ Ended /\ outcome.kind = "return"
    /\ call.commands[1] = <<"s", "h">>

----------------------------------------------------------------------------
(* C5 *)

\* C5: exec_multiple_commands sends its commands in list order, and when it
\* returns for the list c1..cn the result has n entries, the i-th being the
\* lines of the read that followed the sending of ci.
C5_PreservesOrder ==
    call.op = "exec_multiple_commands" =>
        LET n == Len(call.commands)
        IN  /\ Len(Sent) <= n
            /\ \A i \in 1..Len(Sent) : Sent[i] = OnWire(call.commands[i])
            /\ (Ended /\ outcome.kind = "return") =>
                  /\ n > 0
                  /\ Len(outcome.value) = n
                  /\ Len(log) = 2 * n
                  /\ \A i \in 1..n :
                        /\ IsSend(log[2 * i - 1])
                        /\ log[2 * i - 1].text = OnWire(call.commands[i])
                        /\ IsRead(log[2 * i])
                        /\ outcome.value[i] = log[2 * i].rows

\* Two commands were answered differently and the call returned.
C5_Witness ==
    /\ call.op = "exec_multiple_commands"
    /\ Ended /\ outcome.kind = "return"
    /\ Len(call.commands) = 2
    /\ call.commands[1] # call.commands[2]
    /\ outcome.value[1] # outcome.value[2]


----------------------------------------------------------------------------
(* C6 *)

IpHost == <<"1", "9", "2", ".", "0", ".", "2", ".", "1">>

\* C6: constructing a Cisco session for a bare IP address without a default
\* boundary pattern fails before anything is connected, sent or received;
\* with a non-empty pattern the same host is accepted and connected.
C6_IpHostNeedsPattern ==
    (call.op = "__init__" /\ host = IpHost) =>
        IF call.boundary_pattern = <<>>
        THEN /\ phase = "failed"
             /\ Raised("AmbiguousBoundaryPattern")
             /\ ~connected /\ channel = "none"
             /\ log = <<>> /\ chunks = <<>>
             /\ inbuf = <<>> /\ unanswered = 0
        ELSE /\ connected /\ channel # "none"
             /\ outcome.err # "AmbiguousBoundaryPattern"
             /\ default_boundary_pattern = call.boundary_pattern

\* The construction for a bare IP address and no pattern has failed.
C6_Witness ==
    /\ call.op = "__init__"
    /\ host = IpHost
    /\ call.boundary_pattern = <<>>
    /\ phase = "failed"

----------------------------------------------------------------------------
(* C7 *)

\* A public operation that asks for privileged mode on a session in User
\* mode that has no privilege password.
EscalationWithoutPassword ==
    /\ call.modes = UserMode
    /\ privilege_password = None
    /\ \/ call.op = "exec_command" /\ Len(call.commands) = 1
       \/ call.op = "exec_multiple_commands" /\ ~call.config

\* C7: escalation from User mode without a privilege password fails with
\* MissingCredential, the channel is closed when the error reaches the
\* caller, and the call has sent nothing.
C7_MissingCredentialClosesChannel ==
    EscalationWithoutPassword =>
        /\ Sent = <<>>
        /\ chunks = <<>>
        /\ Ended => Raised("MissingCredential") /\ channel = "closed"

\* Such a call has failed on a channel that was open when it began.
C7_Witness ==
    /\ EscalationWithoutPassword
    /\ call.channel = "open"
    /\ Raised("MissingCredential")

----------------------------------------------------------------------------
(* C8 *)

\* C8: exec_multiple_commands with an empty command list fails with
\* ValueError in every mode and for both values of config, having sent and
\* read nothing, with the channel and the mode flags as they were.
C8_EmptyListIsValueError ==
    ( /\ call.op = "exec_multiple_commands"
      /\ call.commands = <<>>
      /\ Ended ) =>
        /\ Raised("ValueError")
        /\ log = <<>> /\ chunks = <<>>
        /\ channel = call.channel
        /\ Modes = call.modes

----------------------------------------------------------------------------
(* C9 *)

\* C9: exec_command with a command list whose length is not 1 fails with
\* ValueError in every mode before any escalation: nothing is sent or read,
\* the channel and the mode flags stay as they were.
C9_WrongCountIsValueError ==
    (call.op = "exec_command" /\ Len(call.commands) # 1) =>
        /\ log = <<>> /\ chunks = <<>>
        /\ channel = call.channel
        /\ Modes = call.modes
        /\ Ended => Raised("ValueError")

\* A list of two commands was refused in User mode, where a valid call
\* would have escalated.
C9_Witness ==
    /\ call.op = "exec_command"
    /\ Len(call.commands) = 2
    /\ call.modes = UserMode
    /\ Raised("ValueError")

----------------------------------------------------------------------------
(* C10 *)

Max(S) == CHOOSE x \in S : \A y \in S : y <= x
Least(S) == CHOOSE x \in S : \A y \in S : x <= y

\* The text after the last newline
LastLine(text) ==
    LET breaks == {i \in 1..Len(text) : text[i] = NL}
    IN  SubSeq(text, IF breaks = {} THEN 1 ELSE Max(breaks) + 1, Len(text))

\* The text without the carriage returns and newlines at its ends
Trimmed(text) ==
    LET kept == {i \in 1..Len(text) : text[i] \notin {CR, NL}}
    IN  IF kept = {} THEN <<>> ELSE SubSeq(text, Least(kept), Max(kept))

SameLetter(a, b) == a = b \/ {a, b} = {"r", "R"} \/ {a, b} = {"o", "O"}

CaseInsensitivePrefix(pattern, text) ==
    /\ Len(pattern) <= Len(text)
    /\ \A i \in 1..Len(pattern) : SameLetter(pattern[i], text[i])

\* The last line of the text, trimmed, begins with the awaited pattern.
AtBoundary(text) == CaseInsensitivePrefix(awaited, Trimmed(LastLine(text)))

RECURSIVE JoinLines(_)
JoinLines(rows) ==
    IF Len(rows) = 1 THEN rows[1]
    ELSE rows[1] \o <<NL>> \o JoinLines(Tail(rows))

\* _boundary_for_interactive has just returned to _send or _initial_actions.
ReadReturned ==
    /\ stack # <<>>
    /\ \/ Top.fn = "_send" /\ Top.pc = "read"
       \/ Top.fn = "_initial_actions" /\ Top.pc = "cleared"

\* C10: a read until the boundary goes on while the text received since it
\* began is not at the boundary and returns at the first receipt after which
\* it is; the raw text it returns is the chunks received during this read,
\* in order, up to that one, and the lines are that text split at newlines.
C10_ReadUntilBoundary ==
    /\ Running("_flush_buffer") =>
          /\ stack[Len(stack) - 1].fn = "_boundary_for_interactive"
          /\ stack[Len(stack) - 1].data = Concat(chunks)
          /\ \A k \in 1..Len(chunks) : ~AtBoundary(Concat(SubSeq(chunks, 1, k)))
    /\ ReadReturned =>
          /\ chunks # <<>>
          /\ AtBoundary(Concat(chunks))
          /\ \A k \in 1..(Len(chunks) - 1) :
                ~AtBoundary(Concat(SubSeq(chunks, 1, k)))
          /\ ret.raw = Concat(chunks)
          /\ JoinLines(ret.rows) = ret.raw
          /\ \A i \in 1..Len(ret.rows) :
                \A j \in 1..Len(ret.rows[i]) : ret.rows[i][j] # NL

\* A read returned text that came in several chunks, from a device whose
\* prompt differs in case from the pattern.
C10_Witness ==
    /\ ReadReturned
    /\ Len(chunks) >= 3
    /\ devName = <<"R">>
    /\ Len(ret.rows) >= 2

----------------------------------------------------------------------------
(* C11 *)

\* A read until the boundary is in progress.
InRead ==
    \E i \in 1..Len(stack) : stack[i].fn = "_boundary_for_interactive"

TimedOut == Raised("TimeoutError")

\* C11: a read until the boundary ends: it returns, and then the text
\* received during it is at the boundary, or it fails with TimeoutError.
\* So a read whose received text is never at the boundary fails with
\* TimeoutError and returns nothing.
C11_NoMatchTimesOut ==
    /\ [](ReadReturned => chunks # <<>> /\ AtBoundary(Concat(chunks)))
    /\ (InRead ~> (ReadReturned \/ TimedOut))

\* A read received text that was not at the boundary and timed out.
C11_Witness ==
    /\ TimedOut
    /\ chunks # <<>>
    /\ \A k \in 1..Len(chunks) : ~AtBoundary(Concat(SubSeq(chunks, 1, k)))

----------------------------------------------------------------------------
(* C12 *)

IsTimeout(e) == e.ev = "timeout"

\* C12: when a read times out inside exec_command or exec_multiple_commands
\* the call ends there with TimeoutError: nothing more is sent or read, the
\* mode flags are those the call began with and the channel is still open.
C12_TimeoutLeavesSession ==
    (PublicCall /\ SelectSeq(log, IsTimeout) # <<>>) =>
        /\ Raised("TimeoutError")
        /\ IsTimeout(Last(log))
        /\ Len(SelectSeq(log, IsTimeout)) = 1
        /\ Modes = call.modes
        /\ call.channel = "open" /\ channel = "open"

\* The second read of an exec_multiple_commands timed out.
C12_Witness ==
    /\ call.op = "exec_multiple_commands"
    /\ TimedOut
    /\ Len(Sent) = 2
    /\ Len(SelectSeq(log, IsRead)) = 1

----------------------------------------------------------------------------
(* C13 *)

ConfigMode == <<FALSE, FALSE, TRUE>>

----------------------------------------------------------------------------
(* C14 *)

\* C14 as claimed: _enter_privilege_mode on a session already in Privileged
\* mode returns without error, having sent nothing, with the channel and
\* the mode flags as they were.
C14_ReentryIsNoOp ==
    ( /\ call.op = "_enter_privilege_mode"
      /\ call.modes = PrivilegedMode
      /\ Ended )
    => /\ outcome.kind = "return"
       /\ Sent = <<>>
       /\ channel = call.channel
       /\ Modes = call.modes

\* C14, amended: on a session already in Privileged mode exec_command and
\* exec_multiple_commands (config not set) do not enter escalation: they
\* send only the caller's commands and leave the channel and the flags as
\* they were.  _enter_privilege_mode itself, called in Privileged mode,
\* fails with the unexpected-mode error, having sent nothing, with the
\* channel and the flags as they were.
C14_NoEscalationStepWhenPrivileged ==
    /\ (PublicCall /\ ~call.config /\ call.modes = PrivilegedMode) =>
          /\ SelectSeq(log, IsEnterPrivilege) = <<>>
          /\ Len(Sent) <= Len(call.commands)
          /\ \A i \in 1..Len(Sent) : Sent[i] = OnWire(call.commands[i])
          /\ channel = call.channel
          /\ Modes = call.modes
    /\ (call.op = "_enter_privilege_mode" /\ call.modes = PrivilegedMode) =>
          /\ Sent = <<>> /\ chunks = <<>>
          /\ channel = call.channel
          /\ Modes = call.modes
          /\ Ended => Raised("UnexpectedModeFlag")

\* _enter_privilege_mode was called in Privileged mode and has failed.
C14_Witness ==
    /\ call.op = "_enter_privilege_mode"
    /\ call.modes = PrivilegedMode
    /\ call.channel = "open"
    /\ Raised("UnexpectedModeFlag")

----------------------------------------------------------------------------
(* C15 *)

\* exec_command or exec_multiple_commands (config not set) with a command
\* list it accepts, begun when the channel was already closed, by close or
\* by an earlier failure for the missing password.
CallOnClosedChannel ==
    /\ call.channel = "closed"
    /\ \/ call.op = "exec_command" /\ Len(call.commands) = 1
       \/ call.op = "exec_multiple_commands" /\ ~call.config
                                             /\ call.commands # <<>>

\* C15: a call on a closed channel fails with the closed-session error in
\* every mode, with or without a privilege password, and sends nothing.
C15_ClosedSessionRefuses ==
    CallOnClosedChannel =>
        /\ Sent = <<>>
        /\ Ended => Raised("SocketClosed")

----------------------------------------------------------------------------
(* C16 *)

\* The constructor has classified the answer to its probe (or failed to):
\* its log then holds the read of the login text, the probe and its read.
Classified ==
    /\ call.op = "__init__"
    /\ ~BeforeModeCheck
    /\ Len(log) >= 3 /\ IsRead(log[3])

\* The trailing line of the probe's answer, trimmed
ProbeLine == Trimmed(Last(log[3].rows))

UserForm == default_boundary_pattern \o user_mode_prompt
PrivilegedForm == default_boundary_pattern \o privilege_mode_prompt

\* C16: the initial mode is User iff the trimmed trailing line of the
\* probe's answer starts (ignoring case) with the default pattern and the
\* user suffix, Privileged iff it starts with the default pattern and the
\* privileged suffix; when it starts with neither the detection fails with
\* UnexpectedPrompt and all three flags are false.
C16_PrefixAnchoredDetection ==
    Classified =>
        IF CaseInsensitivePrefix(UserForm, ProbeLine)
        THEN Modes = UserMode
        ELSE IF CaseInsensitivePrefix(PrivilegedForm, ProbeLine)
        THEN Modes = PrivilegedMode
        ELSE /\ Raised("UnexpectedPrompt")
             /\ Modes = <<FALSE, FALSE, FALSE>>

----------------------------------------------------------------------------
(* C17 *)

\* The prompt suffix of a mode
ModeSuffix(modes) ==
    CASE modes = UserMode -> user_mode_prompt
      [] modes = PrivilegedMode -> privilege_mode_prompt
      [] modes = ConfigMode -> config_mode_prompt

\* C17: _send awaits the pattern handed to it when that is not empty, and
\* otherwise the default pattern followed by the suffix of the current mode;
\* handed no pattern on a session with no mode flag set, it raises and
\* nothing is sent or read.
C17_BoundaryResolution ==
    call.op = "_send" =>
        IF call.boundary_pattern = <<>> /\ call.modes = <<FALSE, FALSE, FALSE>>
        THEN /\ log = <<>> /\ chunks = <<>>
             /\ ~InRead
             /\ Ended => Raised("UnexpectedStatus")
        ELSE LET expected ==
                     IF call.boundary_pattern # <<>>
                     THEN call.boundary_pattern
                     ELSE default_boundary_pattern \o ModeSuffix(call.modes)
             IN  /\ \A i \in 1..Len(stack) :
                        stack[i].fn = "_boundary_for_interactive" =>
                            stack[i].boundary_pattern = expected
                 /\ awaited \in {<<>>, expected}
                 /\ Sent \in {<<>>, <<OnWire(call.commands[1])>>}
                 /\ Ended => /\ Sent # <<>>
                             /\ awaited = expected
                             /\ ~Raised("UnexpectedStatus")

\* _send, handed no pattern in User mode, has returned what it read up to
\* the user prompt.
C17_Witness ==
    /\ call.op = "_send"
    /\ call.boundary_pattern = <<>>
    /\ call.modes = UserMode
    /\ Ended /\ outcome.kind = "return"
    /\ awaited = UserForm

----------------------------------------------------------------------------
(* C18 *)

IsChannelEvent(e) == e.ev \in {"send", "read", "timeout"}

\* What the current operation did on the channel, in order
ChannelEvents == SelectSeq(log, IsChannelEvent)

\* C18: every text sent is followed at once by a read until the boundary,
\* and nothing is sent before that read has returned or timed out: in the
\* order of channel events each send is followed by a read or a timeout,
\* and a send that is followed by nothing yet has its read in progress.
C18_HalfDuplex ==
    \A i \in 1..Len(ChannelEvents) :
        IsSend(ChannelEvents[i]) =>
            IF i < Len(ChannelEvents)
            THEN IsRead(ChannelEvents[i + 1]) \/ IsTimeout(ChannelEvents[i + 1])
            ELSE InRead

\* An operation has sent two commands and returned.
C18_Witness ==
    /\ PublicCall
    /\ Ended /\ outcome.kind = "return"
    /\ Len(Sent) = 2
    /\ Len(ChannelEvents) = 4

----------------------------------------------------------------------------
(* C19 *)

\* A text sent while the privileged flag was set
IsPrivilegedSend(e) == IsSend(e) /\ e.modes = PrivilegedMode

PrivilegedSends == SelectSeq(log, IsPrivilegedSend)

\* _terminal_length_zero has been called and has not returned.
PagingUnderWay ==
    \E i \in 1..Len(stack) : stack[i].fn = "_terminal_length_zero"

\* C19: in the constructor or operation that makes the session Privileged,
\* once the privileged flag is set _terminal_length_zero is under way until
\* something is sent, and the first text sent with the flag set is
\* `terminal length 0`; a session ready in Privileged mode has sent it and
\* read its answer.
C19_PagingDisabledFirst ==
    call.modes # PrivilegedMode =>
        /\ (privilege_mode /\ PrivilegedSends = <<>>) => PagingUnderWay
        /\ PrivilegedSends # <<>> =>
              PrivilegedSends[1].text = Line(TerminalLength0)
        /\ (privilege_mode /\ Ended /\ outcome.kind = "return") =>
              /\ PrivilegedSends # <<>>
              /\ IsRead(Last(log))

\* The constructor found the device in Privileged mode and has returned.
C19_Witness ==
    /\ call.op = "__init__"
    /\ phase = "ready"
    /\ Modes = PrivilegedMode
    /\ Len(PrivilegedSends) = 1

----------------------------------------------------------------------------
(* C20 *)

\* The mode flags allow the current operation to send: privileged for
\* exec_command, privileged or config for exec_multiple_commands.
SendingAllowed(modes) ==
    \/ call.op = "exec_command" /\ modes[2]
    \/ call.op = "exec_multiple_commands" /\ (modes[2] \/ modes[3])

\* C20: exec_command sends only while the privileged flag is set and
\* exec_multiple_commands only while the privileged or the config flag is
\* set; a call that ends without that flag set has raised and has sent
\* nothing.
C20_SendsOnlyInRequiredMode ==
    PublicCall =>
        /\ \A i \in 1..Len(log) : IsSend(log[i]) => SendingAllowed(log[i].modes)
        /\ (Ended /\ ~SendingAllowed(Modes)) =>
              /\ outcome.kind = "raise"
              /\ Sent = <<>>

\* exec_multiple_commands, called in User mode with a password and
\* commands, has raised.
C20_Witness ==
    /\ call.op = "exec_multiple_commands"
    /\ call.modes = UserMode
    /\ call.commands # <<>>
    /\ privilege_password # None
    /\ Ended /\ outcome.kind = "raise"
    /\ Sent = <<>>

----------------------------------------------------------------------------
(* C21 *)

\* _boundary_for_interactive has just returned to _send: the read for a
\* command has returned.
CommandReadReturned == stack # <<>> /\ Top.fn = "_send" /\ Top.pc = "read"

\* C21: when the read for a command returns, the device has answered that
\* command and every character it printed has been received, however its
\* text was split into chunks: nothing is left in flight or in the channel
\* for the read of the next command to receive.
C21_ResponseIsolation ==
    CommandReadReturned =>
        /\ unanswered = 0
        /\ wire = <<>> /\ inbuf = <<>>

----------------------------------------------------------------------------
(* C22 *)

\* The read until the boundary, called by itself, has returned or raised.
ReadEnded == call.op = "_boundary_for_interactive" /\ Ended

\* C22: for every boundary pattern, one that matches the empty text
\* included, the read until the boundary ends in one of two ways: it returns
\* its text and lines after at least one receipt from the channel, or it
\* fails with TimeoutError.
C22_ReturnsReceivedOrTimesOut ==
    ReadEnded =>
        \/ /\ outcome.kind = "return"
           /\ chunks # <<>>
           /\ ret.raw = Concat(chunks)
        \/ TimedOut

============================================================================
